---- MODULE Spec2Model ----
(***************************************************************************)
(* Model of marconiclient.queues.v1.queues.Queue: a client-side handle on  *)
(* one remote queue.  Every method resolves a request and a transport and  *)
(* hands them to a function of the `core` module; the handle itself keeps  *)
(* only the queue id and a one-field metadata cache.                       *)
(*                                                                         *)
(* The `core` and `transport` modules and the client object are not part   *)
(* of queues.py; they are modelled as collaborators: a core call either    *)
(* succeeds with the server's answer or raises, and it is recorded in the  *)
(* log of the operation that made it.                                      *)
(***************************************************************************)
EXTENDS Integers, Sequences, FiniteSets, TLC

\* ------------------------------------------------------------------ bounds

\* Transport instances the transport module may construct for the endpoint.
MaxHandles == 2
\* Messages the server keeps for the queue.
MaxSrvMsgs == 2

\* ----------------------------------------------------------- Python values

\* One shape for every Python value the handle sees: None, bool, str,
\* dict (its key set), list and tuple (their elements).
PyNone == [tag |-> "none", b |-> FALSE, d |-> {}, elems |-> <<>>]
PyBool(x) == [tag |-> "bool", b |-> x, d |-> {}, elems |-> <<>>]
PyStr(s) == [tag |-> "str", b |-> FALSE, d |-> {s}, elems |-> <<>>]
PyDict(keys) == [tag |-> "dict", b |-> FALSE, d |-> keys, elems |-> <<>>]
PyList(items) == [tag |-> "list", b |-> FALSE, d |-> {}, elems |-> items]
PyTuple(items) == [tag |-> "tuple", b |-> FALSE, d |-> {}, elems |-> items]
\* The page core.message_list returns: {'messages': [...], 'links': [...]}.
PyPage(msgs, links) == [tag |-> "page", b |-> FALSE, d |-> {"messages", "links"},
                        elems |-> <<PyList(msgs), PyList(links)>>]

\* Python truth value, as `if x:` and `x or y` compute it.
Truthy(v) ==
    CASE v.tag = "none" -> FALSE
      [] v.tag = "bool" -> v.b
      [] v.tag = "str" -> TRUE
      [] v.tag = "dict" -> v.d # {}
      [] v.tag = "page" -> TRUE
      [] OTHER -> v.elems # <<>>

\* isinstance(v, list)
IsList(v) == v.tag = "list"

\* page['messages']
GetItemMessages(page) == page.elems[1]

\* Metadata documents a caller or the server can hold.
MetaDicts == {PyDict({}), PyDict({"ttl"})}
\* Message bodies.
MsgDicts == {PyDict({"body1"}), PyDict({"body2"})}
\* Arguments of post(): one message, or a list of messages.
PostArgs ==
    {PyDict({"body1"}), PyList(<<>>), PyList(<<PyDict({"body1"})>>),
     PyList(<<PyDict({"body1"}), PyDict({"body2"})>>)}
\* Message ids, as the server assigns them: the message's position.
MsgId(i) == PyStr(ToString(i))

\* ------------------------------------------------------------- transports

\* 0 is None, 1 is the client's default transport, 2.. are the instances the
\* transport module constructs for the client's endpoint.
NoneT == 0
DefaultT == 1
FirstHandle == 2
Unresolved == -1

\* ------------------------------------------------------------------ state

VARIABLES
    constructed,      \* the Queue object exists (__init__ returned)
    _id,              \* self._id
    _metadata,        \* self._metadata
    clientTransport,  \* self.client.transport: NoneT or DefaultT
    schemeSupported,  \* transport.get_transport_for knows the endpoint's scheme
    nHandles,         \* transport instances constructed so far
    firstTrans,       \* transport the handle's first operation resolved
    srvExists,        \* server: the queue exists
    srvMeta,          \* server: the queue's metadata
    srvMsgs,          \* server: the queue's messages
    last,             \* record of the operation that ran last
    prev              \* summary of the operation before it

vars == <<constructed, _id, _metadata, clientTransport, schemeSupported, nHandles,
          firstTrans, srvExists, srvMeta, srvMsgs, last, prev>>

client == <<clientTransport, schemeSupported>>
server == <<srvExists, srvMeta, srvMsgs>>

\* self.client.api_version, self.client.api_url, self.client.client_uuid
ClientApiVersion == 1
ClientApiUrl == "http://localhost:8888"
ClientUuid == "uuid-1"

\* No operation has run.
NoOp == [name |-> "none", arg |-> PyNone, force_reload |-> FALSE, limit |-> 0,
         trans |-> Unresolved, calls |-> <<>>, raised |-> FALSE, ret |-> PyNone,
         preMeta |-> PyNone, postMeta |-> PyNone, preExists |-> FALSE,
         postExists |-> FALSE]

\* What is kept of an operation once the next one has run.  Only the
\* operations a later one is compared with are told apart: a metadata call
\* that passed new_meta, an ensure_exists on a queue the server did not have,
\* and a delete; every other one is "other".
Summary(rec) ==
    LET kept == \/ rec.name = "metadata" /\ rec.arg # PyNone /\ ~rec.force_reload
                \/ rec.name = "ensure_exists" /\ ~rec.preExists
                \/ rec.name = "delete"
    IN  [name |-> IF kept THEN rec.name ELSE "other",
         raised |-> kept /\ rec.raised,
         arg |-> IF kept THEN rec.arg ELSE PyNone,
         fns |-> IF kept THEN [i \in 1..Len(rec.calls) |-> rec.calls[i].fn] ELSE <<>>]

Init ==
    /\ constructed = FALSE
    /\ _id = "demo"
    /\ _metadata = PyNone
    /\ clientTransport \in {NoneT, DefaultT}
    /\ schemeSupported \in BOOLEAN
    /\ nHandles = 0
    /\ firstTrans = Unresolved
    /\ srvExists \in BOOLEAN
    /\ srvMeta = PyDict({})
    /\ srvMsgs = <<>>
    /\ last = NoOp
    /\ prev = Summary(NoOp)

\* ------------------------------------------------- request and transport

\* request.prepare_request(conf, endpoint=api_url, api='queues.v' + str(version))
\* with the Client-ID header set.
Request ==
    [endpoint |-> ClientApiUrl,
     api |-> "queues.v" \o ToString(ClientApiVersion),
     headers |-> {<<"Client-ID", ClientUuid>>}]

\* transport.get_transport_for(conf, request): None when the endpoint's scheme
\* has no transport; otherwise it constructs an instance for the endpoint
\* (once MaxHandles instances exist, the newest one stands for every later one).
GetTransportFor ==
    IF ~schemeSupported THEN {NoneT}
    ELSE IF nHandles < MaxHandles THEN {FirstHandle + nHandles}
    ELSE {FirstHandle + nHandles - 1}

\* Queue._get_transport: `return (trans or self.client.transport)`
GetTransport(trans) == IF trans # NoneT THEN trans ELSE clientTransport

HandlesAfter(t) == IF t = FirstHandle + nHandles THEN nHandles + 1 ELSE nHandles

\* ------------------------------------------------------------- core calls

\* One call of a function of the core module.  It raises when the service or
\* the transport fails (ok = FALSE: at any time, and always when the call
\* needs a queue the server does not have) and when it is handed no transport.
Call(fn, trans, arg, limit, ok, resp) ==
    [fn |-> fn, trans |-> trans, req |-> Request, queue |-> _id, arg |-> arg,
     limit |-> limit, ok |-> (ok /\ trans # NoneT),
     resp |-> IF ok /\ trans # NoneT THEN resp ELSE PyNone]

\* The operation raised: its last core call failed.
Raised(calls) == calls # <<>> /\ ~calls[Len(calls)].ok

\* A successful call of fn is among calls.
Did(calls, fn) == \E i \in 1..Len(calls) : calls[i].fn = fn /\ calls[i].ok

\* The record of one operation, and the bookkeeping every operation shares.
OpRec(name, arg, force_reload, limit, trans, calls, ret, meta, exists) ==
    [name |-> name, arg |-> arg, force_reload |-> force_reload, limit |-> limit,
     trans |-> trans, calls |-> calls, raised |-> Raised(calls),
     ret |-> IF Raised(calls) THEN PyNone ELSE ret,
     preMeta |-> _metadata, postMeta |-> meta, preExists |-> srvExists,
     postExists |-> exists]

Ran(rec, t) ==
    /\ last' = rec
    /\ prev' = Summary(last)
    /\ nHandles' = HandlesAfter(t)
    /\ firstTrans' = IF firstTrans = Unresolved THEN rec.trans ELSE firstTrans
    /\ UNCHANGED <<_id, client>>

\* ------------------------------------------------------- queue operations

\* Queue.exists
ExistsCalls(trans, ok) ==
    <<Call("queue_exists", trans, PyNone, 0, ok, PyBool(srvExists))>>

Exists ==
    /\ constructed
    /\ \E t \in GetTransportFor, ok \in BOOLEAN :
         LET trans == GetTransport(t)
             calls == ExistsCalls(trans, ok)
         IN  /\ Ran(OpRec("exists", PyNone, FALSE, 0, trans, calls,
                          calls[Len(calls)].resp, _metadata, srvExists), t)
             /\ UNCHANGED <<constructed, _metadata, server>>

\* Queue.ensure_exists
EnsureExistsCallsProbe(trans, ok) ==
    IF srvExists
    THEN <<Call("queue_exists", trans, PyNone, 0, ok, PyBool(srvExists))>>
    ELSE <<Call("queue_create", trans, PyNone, 0, ok, PyNone)>>

EnsureExistsCalls(trans, ok) ==
    <<Call("queue_create", trans, PyNone, 0, ok, PyNone)>>

EnsureExists ==
    /\ constructed
    /\ \E t \in GetTransportFor, ok \in BOOLEAN :
         LET trans == GetTransport(t)
             calls == EnsureExistsCalls(trans, ok)
             exists == srvExists \/ Did(calls, "queue_create")
         IN  /\ Ran(OpRec("ensure_exists", PyNone, FALSE, 0, trans, calls, PyNone,
                          _metadata, exists), t)
             /\ srvExists' = exists
             /\ UNCHANGED <<constructed, _metadata, srvMeta, srvMsgs>>

\* Queue.__init__: with auto_create it runs ensure_exists, and the object
\* exists only if that returned.
QueueInit ==
    /\ ~constructed
    /\ \E auto_create \in BOOLEAN, t \in GetTransportFor, ok \in BOOLEAN :
         LET trans == IF auto_create THEN GetTransport(t) ELSE Unresolved
             calls == IF auto_create THEN EnsureExistsCalls(trans, ok) ELSE <<>>
             exists == srvExists \/ Did(calls, "queue_create")
         IN  /\ last' = OpRec("__init__", PyBool(auto_create), FALSE, 0, trans, calls,
                              PyNone, PyNone, exists)
             /\ prev' = Summary(last)
             /\ nHandles' = IF auto_create THEN HandlesAfter(t) ELSE nHandles
             /\ firstTrans' = IF Raised(calls) THEN Unresolved ELSE trans
             /\ constructed' = ~Raised(calls)
             /\ _metadata' = PyNone
             /\ srvExists' = exists
             /\ UNCHANGED <<_id, client, srvMeta, srvMsgs>>

\* Queue.delete
DeleteCalls(trans, ok) ==
    <<Call("queue_delete", trans, PyNone, 0, ok, PyNone)>>

Delete ==
    /\ constructed
    /\ \E t \in GetTransportFor, ok \in BOOLEAN :
         LET trans == GetTransport(t)
             calls == DeleteCalls(trans, ok)
             gone == Did(calls, "queue_delete")
         IN  /\ Ran(OpRec("delete", PyNone, FALSE, 0, trans, calls, PyNone,
                          _metadata, srvExists /\ ~gone), t)
             /\ srvExists' = (srvExists /\ ~gone)
             /\ srvMeta' = IF gone THEN PyDict({}) ELSE srvMeta
             /\ srvMsgs' = IF gone THEN <<>> ELSE srvMsgs
             /\ UNCHANGED <<constructed, _metadata>>

\* Queue.metadata, line 92: `if new_meta:`
UseNewMeta(new_meta) == Truthy(new_meta)

\* Queue.metadata, lines 93-94: the cache is assigned after the write returned.
MetadataAfterSetEager(meta, new_meta, written) == new_meta

MetadataAfterSet(meta, new_meta, written) == IF written THEN new_meta ELSE meta

\* Queue.metadata, line 97: `if self._metadata and not force_reload:`
CacheHitIgnoringReload(meta, force_reload) == Truthy(meta)

CacheHit(meta, force_reload) == Truthy(meta) /\ ~force_reload

Metadata ==
    /\ constructed
    /\ \E new_meta \in MetaDicts \cup {PyNone}, force_reload \in BOOLEAN,
          t \in GetTransportFor, ok1 \in BOOLEAN, ok2 \in BOOLEAN :
         \* the outcome of a call that is not made is not a choice
         /\ (ok1 \/ UseNewMeta(new_meta)) /\ (ok2 \/ ok1)
         /\ LET
             trans == GetTransport(t)
             setCalls ==
                 IF UseNewMeta(new_meta)
                 THEN <<Call("queue_set_metadata", trans, new_meta, 0,
                             ok1 /\ srvExists, PyNone)>>
                 ELSE <<>>
             written == Did(setCalls, "queue_set_metadata")
             meta1 == IF setCalls # <<>>
                      THEN MetadataAfterSet(_metadata, new_meta, written)
                      ELSE _metadata
             srvMeta1 == IF written THEN new_meta ELSE srvMeta
             getCalls ==
                 IF Raised(setCalls) \/ CacheHit(meta1, force_reload)
                 THEN <<>>
                 ELSE <<Call("queue_get_metadata", trans, PyNone, 0,
                             ok2 /\ srvExists, srvMeta1)>>
             meta2 == IF Did(getCalls, "queue_get_metadata")
                      THEN getCalls[1].resp
                      ELSE meta1
             calls == setCalls \o getCalls
            IN  /\ Ran(OpRec("metadata", new_meta, force_reload, 0, trans, calls,
                             meta2, meta2, srvExists), t)
                /\ _metadata' = meta2
                /\ srvMeta' = srvMeta1
                /\ UNCHANGED <<constructed, srvExists, srvMsgs>>

\* Queue.post, lines 118-119: a single message becomes a one-element list.
NormalizeMessagesAlways(messages) == PyList(<<messages>>)

NormalizeMessages(messages) ==
    IF ~IsList(messages) THEN PyList(<<messages>>) ELSE messages

\* core.message_post: the server appends the batch and answers with the ids.
PostedIds(n) == PyList([i \in 1..n |-> MsgId(Len(srvMsgs) + i)])

Post ==
    /\ constructed
    /\ \E messages \in PostArgs, t \in GetTransportFor, ok \in BOOLEAN :
         LET trans == GetTransport(t)
             payload == NormalizeMessages(messages)
             n == Len(payload.elems)
             fits == srvExists /\ Len(srvMsgs) + n <= MaxSrvMsgs
             calls == <<Call("message_post", trans, payload, 0, ok /\ fits,
                             PostedIds(n))>>
         IN  /\ Ran(OpRec("post", messages, FALSE, 0, trans, calls, calls[1].resp,
                          _metadata, srvExists), t)
             /\ srvMsgs' = IF calls[1].ok THEN srvMsgs \o payload.elems ELSE srvMsgs
             /\ UNCHANGED <<constructed, _metadata, srvExists, srvMeta>>

\* The server's message with the given id, if it has one.
HasMsg(id) == \E i \in 1..Len(srvMsgs) : MsgId(i) = id
MsgOf(id) == srvMsgs[CHOOSE i \in 1..Len(srvMsgs) : MsgId(i) = id]

\* Queue.message
Message ==
    /\ constructed
    /\ \E i \in 1..MaxSrvMsgs, t \in GetTransportFor, ok \in BOOLEAN :
         LET trans == GetTransport(t)
             message_id == MsgId(i)
             found == HasMsg(message_id)
             calls == <<Call("message_get", trans, message_id, 0, ok /\ found,
                             IF found THEN MsgOf(message_id) ELSE PyNone)>>
         IN  /\ Ran(OpRec("message", message_id, FALSE, 0, trans, calls, calls[1].resp,
                          _metadata, srvExists), t)
             /\ UNCHANGED <<constructed, _metadata, server>>

\* core.message_get_many: the messages among ids the server has.
RECURSIVE GetMany(_)
GetMany(ids) ==
    IF ids = <<>> THEN <<>>
    ELSE (IF HasMsg(Head(ids)) THEN <<MsgOf(Head(ids))>> ELSE <<>>) \o GetMany(Tail(ids))

\* core.message_list: one page of at most `limit` messages (the server's page
\* size when no limit is given) and a link to the next page if there is one.
ServerPageSize == 1
ListPage(limit) ==
    LET size == IF limit = 0 THEN ServerPageSize ELSE limit
        n == IF Len(srvMsgs) < size THEN Len(srvMsgs) ELSE size
    IN  PyPage(SubSeq(srvMsgs, 1, n),
               IF n < Len(srvMsgs) THEN <<PyStr("next")>> ELSE <<>>)

\* Queue.messages, lines 166-175: ids have the priority over the filters.
MessagesCallsFiltersFirst(trans, messages, limit, ok) ==
    IF Truthy(messages) /\ limit = 0
    THEN <<Call("message_get_many", trans, messages, 0, ok /\ srvExists,
                PyList(GetMany(messages.elems)))>>
    ELSE <<Call("message_list", trans, PyNone, limit, ok /\ srvExists,
                ListPage(limit))>>

MessagesCalls(trans, messages, limit, ok) ==
    IF Truthy(messages)
    THEN <<Call("message_get_many", trans, messages, 0, ok /\ srvExists,
                PyList(GetMany(messages.elems)))>>
    ELSE <<Call("message_list", trans, PyNone, limit, ok /\ srvExists,
                ListPage(limit))>>

\* Queue.messages, lines 167 and 173-175: what it returns from the answer.
MessagesReturn(call) ==
    IF call.fn = "message_list" THEN GetItemMessages(call.resp) ELSE call.resp

\* The id tuples a caller passes as *messages.
IdTuples ==
    {PyTuple(<<>>), PyTuple(<<MsgId(1)>>), PyTuple(<<MsgId(1), MsgId(2)>>)}

\* The `limit` filter a caller passes in **params (0: none).
Limits == {0, 2}

Messages ==
    /\ constructed
    /\ \E messages \in IdTuples, limit \in Limits,
          t \in GetTransportFor, ok \in BOOLEAN :
         LET trans == GetTransport(t)
             calls == MessagesCalls(trans, messages, limit, ok)
         IN  /\ Ran(OpRec("messages", messages, FALSE, limit, trans, calls,
                          IF calls[1].ok THEN MessagesReturn(calls[1]) ELSE PyNone,
                          _metadata, srvExists), t)
             /\ UNCHANGED <<constructed, _metadata, server>>

\* ------------------------------------------------------------ other actors

\* Another client deletes the queue (ensure_exists "is not race safe").
ExternalDelete ==
    /\ srvExists
    /\ srvExists' = FALSE
    /\ srvMeta' = PyDict({})
    /\ srvMsgs' = <<>>
    /\ UNCHANGED <<constructed, _id, _metadata, client, nHandles, firstTrans,
                   last, prev>>

\* Another client replaces the queue's metadata.
ExternalSetMetadata ==
    /\ srvExists
    /\ \E m \in MetaDicts : m # srvMeta /\ srvMeta' = m
    /\ UNCHANGED <<constructed, _id, _metadata, client, nHandles, firstTrans,
                   srvExists, srvMsgs, last, prev>>

Next ==
    \/ QueueInit
    \/ Exists
    \/ EnsureExists
    \/ Metadata
    \/ Delete
    \/ Post
    \/ Message
    \/ Messages
    \/ ExternalDelete
    \/ ExternalSetMetadata

Spec == Init /\ [][Next]_vars

\* ------------------------------------------------------------- properties

\* Core calls of fn among calls.
CountFn(calls, fn) == Cardinality({i \in 1..Len(calls) : calls[i].fn = fn})

\* A metadata document with at least one key.
NonEmptyDict(v) == v.tag = "dict" /\ v.d # {}

\* The last operation had a transport, and a queue to talk to.
HasTransport == last.trans # NoneT
Served == HasTransport /\ last.preExists

\* metadata() with no new_meta and force_reload=False ran last.
PlainMetadata ==
    last.name = "metadata" /\ last.arg = PyNone /\ ~last.force_reload /\ HasTransport

\* C1: metadata() with no arguments on an empty (None) cache makes exactly one
\* queue_get_metadata fetch and stores its result; once the cache is set,
\* whatever the server returned (empty metadata included), metadata() makes no
\* fetch and returns the cached value.
C1_CachedMetadataNotRefetched ==
    (PlainMetadata /\ Served) =>
        IF last.preMeta = PyNone
        THEN /\ Len(last.calls) = 1
             /\ last.calls[1].fn = "queue_get_metadata"
             /\ (~last.raised => last.postMeta = last.calls[1].resp)
        ELSE /\ last.calls = <<>>
             /\ last.ret = last.preMeta

\* C2: metadata(new_meta) makes exactly one queue_set_metadata write for every
\* new_meta value passed, and the metadata() call right after it returns
\* new_meta without a fetch.
C2_WriteThenCachedRead ==
    /\ (last.name = "metadata" /\ last.arg # PyNone /\ ~last.force_reload /\ Served)
           => CountFn(last.calls, "queue_set_metadata") = 1
    /\ (prev.name = "metadata" /\ ~prev.raised /\ PlainMetadata /\ Served)
           => (last.calls = <<>> /\ last.ret = prev.arg)

\* The methods C3 lists.
QueueOps == {"exists", "ensure_exists", "metadata", "delete", "post", "message",
             "messages"}

\* C3 as stated: every call of a Queue operation, metadata with any
\* arguments included, issues exactly one core request.
C3_ExactlyOneRequest == (last.name \in QueueOps /\ Served) => Len(last.calls) = 1

\* The core function each single-request method calls.
CoreFnOf(rec) ==
    CASE rec.name = "exists" -> "queue_exists"
      [] rec.name = "ensure_exists" -> "queue_create"
      [] rec.name = "delete" -> "queue_delete"
      [] rec.name = "post" -> "message_post"
      [] rec.name = "message" -> "message_get"
      [] rec.name = "messages" ->
             IF rec.arg.elems # <<>> THEN "message_get_many" ELSE "message_list"
      [] OTHER -> "none"

\* The core calls a metadata call makes: a write when new_meta is a non-empty
\* dict; then, unless the write raised, a fetch when force_reload is set or
\* the cache (after the write) is None or empty.
MetadataFns(rec) ==
    LET writes == NonEmptyDict(rec.arg)
        wrote == writes /\ rec.calls # <<>> /\ rec.calls[1].ok
        cached == IF wrote THEN rec.arg ELSE rec.preMeta
    IN  IF writes /\ ~wrote THEN <<"queue_set_metadata">>
        ELSE (IF writes THEN <<"queue_set_metadata">> ELSE <<>>)
             \o (IF NonEmptyDict(cached) /\ ~rec.force_reload
                 THEN <<>> ELSE <<"queue_get_metadata">>)

\* C3, amended: exists, ensure_exists, delete, post, message and messages
\* issue exactly one core request each (post one batched message_post, a
\* filter-based messages() one message_list); metadata issues none, one or
\* two, as MetadataFns says.
C3_RequestsPerOperation ==
    /\ last.name \in QueueOps \ {"metadata"} =>
           /\ Len(last.calls) = 1
           /\ last.calls[1].fn = CoreFnOf(last)
    /\ last.name = "post" =>
           Len(last.calls[1].arg.elems) =
               (IF last.arg.tag = "list" THEN Len(last.arg.elems) ELSE 1)
    /\ last.name = "metadata" =>
           [i \in 1..Len(last.calls) |-> last.calls[i].fn] = MetadataFns(last)

C3_Witness ==
    /\ last.name = "metadata"
    /\ Len(last.calls) = 2
    /\ ~last.raised

\* C4: post(m) and post([m]) hand core.message_post the same list [m] for
\* the handle's queue id; a list is handed over as it is.
C4_PostNormalizes ==
    last.name = "post" =>
        /\ last.calls[1].fn = "message_post"
        /\ last.calls[1].queue = _id
        /\ last.arg.tag = "dict" => last.calls[1].arg = PyList(<<last.arg>>)
        /\ last.arg.tag = "list" => last.calls[1].arg = last.arg

C4_Witness ==
    /\ last.name = "post"
    /\ last.arg.tag = "dict"
    /\ ~last.raised
    /\ srvMsgs # <<>>

\* ensure_exists ran twice in sequence and returned both times, first on a
\* queue the server did not have, with no deletion by anyone in between.
EnsuredTwice ==
    /\ prev.name = "ensure_exists" /\ ~prev.raised
    /\ last.name = "ensure_exists" /\ ~last.raised
    /\ last.preExists

\* C5 as stated: the two invocations issue one create call in total, the
\* second issuing none, and the queue exists afterwards.
C5_OneCreateInTotal ==
    EnsuredTwice =>
        /\ CountFn(last.calls, "queue_create") = 0
        /\ Len(prev.fns) + Len(last.calls) = 1
        /\ last.postExists

\* C5, amended: each of the two invocations issues exactly one create call
\* (two in total), the second leaves the existing queue as it is, and the
\* queue exists afterwards.
C5_OneCreatePerInvocation ==
    EnsuredTwice =>
        /\ prev.fns = <<"queue_create">>
        /\ Len(last.calls) = 1
        /\ last.calls[1].fn = "queue_create"
        /\ last.postExists

C5_Witness == EnsuredTwice /\ srvExists

\* C6: an operation uses the endpoint's transport when get_transport_for
\* returns one and the client's default otherwise, and no core call is ever
\* handed a null transport.
C6_NeverNullTransport ==
    last.calls # <<>> =>
        /\ schemeSupported => last.trans >= FirstHandle
        /\ ~schemeSupported => last.trans = clientTransport
        /\ \A i \in 1..Len(last.calls) : last.calls[i].trans # NoneT

\* C7: every operation of a handle after its first uses the transport the
\* first one resolved; no second one is constructed for the endpoint.
C7_OneTransportPerEndpoint ==
    (constructed /\ firstTrans # Unresolved /\ last.name \in QueueOps) =>
        last.trans = firstTrans

\* C8 as stated: when a core call fails nothing follows it, and the cache
\* holds what it held before the operation.
C8_FailureLeavesCache ==
    /\ \A i \in 1..Len(last.calls) : ~last.calls[i].ok => i = Len(last.calls)
    /\ (last.raised /\ Served) =>
           (last.postMeta = last.preMeta /\ _metadata = last.preMeta)

\* C8, amended: when a core call fails nothing follows it and nothing is
\* returned; the cache holds what it held before the operation, unless the
\* failing call is the fetch of metadata(new_meta, force_reload=True) whose
\* write had succeeded, and then it holds new_meta.  A failed
\* queue_set_metadata never leaves new_meta in the cache.
C8_FailureAfterWriteKeepsWrite ==
    /\ \A i \in 1..Len(last.calls) : ~last.calls[i].ok => i = Len(last.calls)
    /\ _metadata = last.postMeta
    /\ last.raised =>
           /\ last.ret = PyNone
           /\ last.postMeta = (IF Did(last.calls, "queue_set_metadata")
                               THEN last.arg ELSE last.preMeta)
           /\ Did(last.calls, "queue_set_metadata") =>
                  (last.force_reload /\ Len(last.calls) = 2)

C8_Witness ==
    /\ last.name = "metadata"
    /\ last.raised
    /\ last.calls[1].fn = "queue_set_metadata"
    /\ ~last.calls[1].ok
    /\ last.arg # last.preMeta
    /\ srvExists

\* C9: messages() with ids issues only message_get_many with those ids and
\* ignores the filters; without ids it issues only message_list with the
\* filters and returns the 'messages' field of that one page.
C9_MessagesDispatch ==
    last.name = "messages" =>
        /\ Len(last.calls) = 1
        /\ IF last.arg.elems # <<>>
           THEN /\ last.calls[1].fn = "message_get_many"
                /\ last.calls[1].arg = last.arg
                /\ last.calls[1].limit = 0
                /\ ~last.raised => last.ret = last.calls[1].resp
           ELSE /\ last.calls[1].fn = "message_list"
                /\ last.calls[1].limit = last.limit
                /\ ~last.raised =>
                       /\ last.calls[1].resp.tag = "page"
                       /\ last.ret = last.calls[1].resp.elems[1]
                       /\ last.ret.tag = "list"

C9_Witness ==
    /\ last.name = "messages"
    /\ last.arg.elems # <<>>
    /\ last.limit # 0
    /\ ~last.raised
    /\ last.ret.elems # <<>>

\* C10: only metadata() changes the cache, so a metadata() call with no
\* arguments right after delete() returns the metadata cached before it
\* without a core call.
C10_OnlyMetadataChangesCache ==
    /\ last.name \in QueueOps \ {"metadata"} =>
           (last.postMeta = last.preMeta /\ _metadata = last.preMeta)
    /\ (prev.name = "delete" /\ ~prev.raised /\ PlainMetadata
           /\ last.preMeta # PyNone) =>
           (last.calls = <<>> /\ last.ret = last.preMeta)

====
